---- MODULE Spec2Model ----
(***************************************************************************)
(* The hand state machine of SheepsheadGame (src/src/game/SheepsheadGame.js *)
(* lines 59-1177) together with the card utilities of src/src/game/deck.js *)
(* and the constants module (src/unnamed/part_011).                        *)
(*                                                                         *)
(* A card is identified by a number 0..31: the position of the card in the *)
(* deck createDeck() builds (suit-major over SUITS, then RANKS).  A seat   *)
(* is a number 0..4: the index of the player in this.players; the player   *)
(* id of seat i is i.                                                      *)
(***************************************************************************)
EXTENDS Integers, Sequences, FiniteSets, TLC

(***************************************************************************)
(* constants.js                                                            *)
(***************************************************************************)
SUITS == <<"diamonds", "hearts", "spades", "clubs">>
FAIL_SUITS == <<"hearts", "spades", "clubs">>
RANKS == <<"7", "8", "9", "10", "J", "Q", "K", "A">>

POINT_VALUES ==
  [r \in {"7", "8", "9", "10", "J", "Q", "K", "A"} |->
     CASE r = "10" -> 10
       [] r = "J" -> 2
       [] r = "Q" -> 3
       [] r = "K" -> 4
       [] r = "A" -> 11
       [] OTHER -> 0]

TRUMP_ORDER ==
  << <<"diamonds", "7">>, <<"diamonds", "8">>, <<"diamonds", "9">>,
     <<"diamonds", "K">>, <<"diamonds", "10">>, <<"diamonds", "A">>,
     <<"diamonds", "J">>, <<"hearts", "J">>, <<"spades", "J">>, <<"clubs", "J">>,
     <<"diamonds", "Q">>, <<"hearts", "Q">>, <<"spades", "Q">>, <<"clubs", "Q">> >>

FAIL_ORDER == <<"7", "8", "9", "K", "10", "A">>

NUM_PLAYERS == 5
CARDS_PER_PLAYER == 6
BLIND_SIZE == 2
TOTAL_POINTS == 120
WIN_THRESHOLD == 61

(***************************************************************************)
(* JavaScript's null, for a seat or a card id, and for a suit.             *)
(***************************************************************************)
null == -1
nullSuit == "null"

Seats == 0 .. (NUM_PLAYERS - 1)
Cards == 0 .. 31

(* Array.prototype.indexOf on a tuple: zero-based, -1 when absent *)
indexOf(seq, x) ==
  IF \E i \in 1 .. Len(seq) : seq[i] = x
    THEN (CHOOSE i \in 1 .. Len(seq) : seq[i] = x /\ \A j \in 1 .. (i - 1) : seq[j] # x) - 1
    ELSE -1

(* Array.prototype.includes *)
includes(seq, x) == \E i \in 1 .. Len(seq) : seq[i] = x

(* sum of f[seq[i]] over a sequence *)
RECURSIVE SumSeq(_)
SumSeq(seq) == IF seq = <<>> THEN 0 ELSE Head(seq) + SumSeq(Tail(seq))

(***************************************************************************)
(* deck.js: the fields of a card object                                    *)
(***************************************************************************)
SuitTable == [c \in Cards |-> SUITS[(c \div 8) + 1]]
RankTable == [c \in Cards |-> RANKS[(c % 8) + 1]]

suitOf(c) == SuitTable[c]
rankOf(c) == RankTable[c]
pointsOf(c) == POINT_VALUES[RankTable[c]]

(* cardId(suit, rank): the id of the card of that suit and rank *)
cardId(suit, rank) == 8 * indexOf(SUITS, suit) + indexOf(RANKS, rank)

createDeck == [i \in 1 .. 32 |-> i - 1]

isTrump(c) ==
  IF rankOf(c) = "Q" \/ rankOf(c) = "J" THEN TRUE
  ELSE IF suitOf(c) = "diamonds" THEN TRUE
  ELSE FALSE

getTrumpPower(c) == indexOf(TRUMP_ORDER, <<suitOf(c), rankOf(c)>>)

(* getFailPower by the order of RANKS, the 10 below the King *)
getFailPowerByRank(c) == IF isTrump(c) THEN -1 ELSE indexOf(RANKS, rankOf(c))

getFailPower(c) == IF isTrump(c) THEN -1 ELSE indexOf(FAIL_ORDER, rankOf(c))

(* getEffectiveSuit without the trump suit *)
getEffectiveSuitPrinted(c) == suitOf(c)

getEffectiveSuit(c) == IF isTrump(c) THEN "trump" ELSE suitOf(c)

compareCards(card1, card2, leadSuit) ==
  LET trump1 == isTrump(card1)
      trump2 == isTrump(card2)
      eff1 == getEffectiveSuit(card1)
      eff2 == getEffectiveSuit(card2)
  IN  IF trump1 /\ ~trump2 THEN 1
      ELSE IF ~trump1 /\ trump2 THEN -1
      ELSE IF trump1 /\ trump2 THEN getTrumpPower(card1) - getTrumpPower(card2)
      ELSE IF eff1 = leadSuit /\ eff2 # leadSuit THEN 1
      ELSE IF eff1 # leadSuit /\ eff2 = leadSuit THEN -1
      ELSE IF eff1 = leadSuit /\ eff2 = leadSuit
        THEN getFailPower(card1) - getFailPower(card2)
      ELSE 1

(* the loop of determineTrickWinner: the index of the winning play *)
RECURSIVE winnerIndex(_, _, _, _)
winnerIndex(trick, leadSuit, i, w) ==
  IF i > Len(trick) THEN w
  ELSE IF compareCards(trick[i].card, trick[w].card, leadSuit) > 0
    THEN winnerIndex(trick, leadSuit, i + 1, i)
  ELSE winnerIndex(trick, leadSuit, i + 1, w)

determineTrickWinner(trick) ==
  IF Len(trick) = 0 THEN null
  ELSE trick[winnerIndex(trick, getEffectiveSuit(trick[1].card), 2, 1)].playerId

calculatePoints(cards) == SumSeq([i \in 1 .. Len(cards) |-> pointsOf(cards[i])])

(* a test for the ace that never finds it *)
hasAceNever(hand, suit) == FALSE

hasAce(hand, suit) ==
  \E i \in 1 .. Len(hand) :
    suitOf(hand[i]) = suit /\ rankOf(hand[i]) = "A" /\ ~isTrump(hand[i])

(* the comparator of sortHand: negative when a sorts before b *)
sortHandCompare(a, b) ==
  LET trumpA == isTrump(a)
      trumpB == isTrump(b)
  IN  IF trumpA /\ ~trumpB THEN -1
      ELSE IF ~trumpA /\ trumpB THEN 1
      ELSE IF trumpA /\ trumpB THEN getTrumpPower(b) - getTrumpPower(a)
      ELSE IF suitOf(a) # suitOf(b)
        THEN indexOf(FAIL_SUITS, suitOf(a)) - indexOf(FAIL_SUITS, suitOf(b))
      ELSE getFailPower(b) - getFailPower(a)

sortHand(hand) == SortSeq(hand, LAMBDA a, b : sortHandCompare(a, b) < 0)

(***************************************************************************)
(* getPlayableCards(hand, currentTrick, calledSuit, calledSuitHasBeenLed,  *)
(* isPicker, hasCalledAce): the cards of hand that may be played, in hand  *)
(* order.                                                                  *)
(***************************************************************************)
getPlayableCards(hand, trick, calledSuit, calledSuitHasBeenLed, isPicker, hasCalledAce) ==
  IF Len(trick) = 0
    THEN
      IF calledSuit # nullSuit
        THEN
          LET cardsInCalledSuit ==
                SelectSeq(hand, LAMBDA c : getEffectiveSuit(c) = calledSuit)
              calledAceCard ==
                \E i \in 1 .. Len(hand) :
                  suitOf(hand[i]) = calledSuit /\ rankOf(hand[i]) = "A"
          IN  IF calledAceCard /\ Len(cardsInCalledSuit) > 0 /\ Len(cardsInCalledSuit) < 4
                THEN SelectSeq(hand, LAMBDA c :
                       IF getEffectiveSuit(c) = calledSuit THEN rankOf(c) = "A" ELSE TRUE)
              ELSE IF isPicker /\ ~calledSuitHasBeenLed /\ Len(cardsInCalledSuit) > 0
                      /\ Len(cardsInCalledSuit) = 1
                THEN SelectSeq(hand, LAMBDA c : getEffectiveSuit(c) # calledSuit)
              ELSE hand
      ELSE hand
  ELSE
    LET leadSuit == getEffectiveSuit(trick[1].card)
        cardsInSuit == SelectSeq(hand, LAMBDA c : getEffectiveSuit(c) = leadSuit)
    IN  IF Len(cardsInSuit) > 0
          THEN
            IF calledSuit # nullSuit /\ leadSuit = calledSuit /\ hasCalledAce
                 /\ \E i \in 1 .. Len(cardsInSuit) : rankOf(cardsInSuit[i]) = "A"
              THEN SelectSeq(cardsInSuit, LAMBDA c : rankOf(c) = "A")
            ELSE cardsInSuit
        ELSE IF calledSuit # nullSuit /\ isPicker /\ ~calledSuitHasBeenLed
                /\ Len(SelectSeq(hand, LAMBDA c : getEffectiveSuit(c) = calledSuit)) = 1
          THEN SelectSeq(hand, LAMBDA c : getEffectiveSuit(c) # calledSuit)
        ELSE hand

(***************************************************************************)
(* Bounds of the model                                                     *)
(***************************************************************************)
(* hands dealt in one run: startHand is taken while dealerIndex < MaxHands *)
MaxHands == 2
(* plays of a hand for which every legal card is tried; later plays try   *)
(* the first legal card of the hand only (illegal cards are always tried) *)
FreePlays == 1
(* a bury that is accepted names cards among the last BuryWindow cards of *)
(* the picker's hand (rejected argument lists are tried over the whole    *)
(* hand)                                                                   *)
BuryWindow == 2
(* an under card that is accepted is among the first MaxUnder cards of    *)
(* the picker's hand                                                       *)
MaxUnder == 1

(***************************************************************************)
(* The shuffled decks startHand may draw (the result of shuffle).         *)
(***************************************************************************)
Deck1 ==
  <<21, 15, 29, 13, 28, 3, 23, 20, 6, 12, 14, 31, 4, 10, 9, 8,
    11, 7, 22, 17, 18, 19, 2, 16, 26, 25, 27, 0, 30, 24, 5, 1>>
Deck2 ==
  <<19, 27, 22, 15, 16, 18, 14, 10, 23, 8, 21, 28, 13, 31, 5, 6,
    7, 20, 11, 12, 9, 2, 3, 29, 1, 24, 17, 26, 0, 25, 30, 4>>

Deck3 ==
  <<0, 1, 2, 3, 4, 5, 6, 7, 8, 9, 10, 11, 12, 13, 14, 15,
    16, 17, 18, 19, 20, 21, 22, 23, 24, 25, 26, 27, 28, 29, 30, 31>>

(* shuffle(createDeck()): the deck startHand draws for each hand of a run *)
shuffle == <<Deck1, Deck2, Deck3>>

(***************************************************************************)
(* The fields of a SheepsheadGame with five players seated, and ret: the   *)
(* value returned by the last call.                                        *)
(***************************************************************************)
VARIABLES hands, blind, buried, phase, dealerIndex, currentPlayerIndex,
          pickingIndex, passedPlayers, picker, partner, calledSuit, calledRank,
          isUnderCall, underCardId, underCardPlayed, calledSuitFirstTrick,
          currentTrick, tricks, tricksWon, lastTrick, isSchwanzer, handResults,
          ret

vars == <<hands, blind, buried, phase, dealerIndex, currentPlayerIndex,
          pickingIndex, passedPlayers, picker, partner, calledSuit, calledRank,
          isUnderCall, underCardId, underCardPlayed, calledSuitFirstTrick,
          currentTrick, tricks, tricksWon, lastTrick, isSchwanzer, handResults,
          ret>>

(* the fields of one hand that pick, callAce, bury and playCard may write *)
handState == <<hands, blind, buried, phase, dealerIndex, currentPlayerIndex,
               pickingIndex, passedPlayers, picker, partner, calledSuit, calledRank,
               isUnderCall, underCardId, underCardPlayed, calledSuitFirstTrick,
               currentTrick, tricks, tricksWon, lastTrick, isSchwanzer, handResults>>

noResults == [type |-> "null"]

(* a rejection { success: false, error }: ret keeps the success flag; the error
   text of a rejected call is the value of pickError, callAceError, buryError
   or playCardError for that call *)
failure(msg) == [success |-> FALSE]

(* constructor, then addPlayer for five players *)
Init ==
  /\ hands = [p \in Seats |-> <<>>]
  /\ blind = <<>>
  /\ buried = <<>>
  /\ phase = "waiting"
  /\ dealerIndex = 0
  /\ currentPlayerIndex = 0
  /\ pickingIndex = 0
  /\ passedPlayers = <<>>
  /\ picker = null
  /\ partner = null
  /\ calledSuit = nullSuit
  /\ calledRank = "A"
  /\ isUnderCall = FALSE
  /\ underCardId = null
  /\ underCardPlayed = FALSE
  /\ calledSuitFirstTrick = TRUE
  /\ currentTrick = <<>>
  /\ tricks = <<>>
  /\ tricksWon = [p \in Seats |-> <<>>]
  /\ lastTrick = <<>>
  /\ isSchwanzer = FALSE
  /\ handResults = noResults
  /\ ret = [success |-> TRUE, seatIndex |-> NUM_PLAYERS - 1]

(***************************************************************************)
(* startHand(): deal the shuffled deck.  The session layer calls it when   *)
(* the table is full and again when every player asked for the next hand.  *)
(***************************************************************************)
startHand(deck) ==
  /\ phase \in {"waiting", "scoring"}
  /\ dealerIndex < MaxHands
  /\ buried' = <<>>
  /\ picker' = null
  /\ partner' = null
  /\ calledSuit' = nullSuit
  /\ calledRank' = "A"
  /\ isUnderCall' = FALSE
  /\ underCardId' = null
  /\ underCardPlayed' = FALSE
  /\ calledSuitFirstTrick' = TRUE
  /\ currentTrick' = <<>>
  /\ tricks' = <<>>
  /\ lastTrick' = <<>>
  /\ passedPlayers' = <<>>
  /\ isSchwanzer' = FALSE
  /\ handResults' = noResults
  /\ tricksWon' = [p \in Seats |-> <<>>]
  /\ hands' = [p \in Seats |->
                 sortHand([i \in 1 .. CARDS_PER_PLAYER |->
                             deck[(i - 1) * NUM_PLAYERS + p + 1]])]
  /\ blind' = <<deck[NUM_PLAYERS * CARDS_PER_PLAYER + 1],
                deck[NUM_PLAYERS * CARDS_PER_PLAYER + 2]>>
  /\ phase' = "picking"
  /\ pickingIndex' = (dealerIndex + 1) % NUM_PLAYERS
  /\ currentPlayerIndex' = (dealerIndex + 1) % NUM_PLAYERS
  /\ ret' = [success |-> TRUE]
  /\ UNCHANGED dealerIndex

(***************************************************************************)
(* _calculateFailPoints and _scoreSchwanzer                                *)
(***************************************************************************)
calculateFailPoints(hand) ==
  SumSeq([i \in 1 .. Len(hand) |->
            IF rankOf(hand[i]) = "Q" THEN 3
            ELSE IF rankOf(hand[i]) = "J" THEN 2
            ELSE IF suitOf(hand[i]) = "diamonds" THEN 1
            ELSE 0])

(* the least of the five values, taken for the greatest *)
leastOf(f) == CHOOSE m \in {f[p] : p \in Seats} : \A p \in Seats : m <= f[p]

(* Math.max over the five seats *)
maxOf(f) == CHOOSE m \in {f[p] : p \in Seats} : \A p \in Seats : f[p] <= m

(* this.players.filter(test): the seats passing the test, in seat order *)
seatsWhere(passing) ==
  SelectSeq([i \in 1 .. NUM_PLAYERS |-> i - 1], LAMBDA p : p \in passing)

scoreSchwanzer(hs) ==
  LET playerSchwanzerPoints == [p \in Seats |-> calculateFailPoints(hs[p])]
      maxSchwanzerPoints == maxOf(playerSchwanzerPoints)
      losers == seatsWhere({p \in Seats : playerSchwanzerPoints[p] = maxSchwanzerPoints})
      winners == seatsWhere({p \in Seats : playerSchwanzerPoints[p] < maxSchwanzerPoints})
      numLosers == Len(losers)
      loserScore == CASE numLosers = 1 -> -4
                      [] numLosers = 2 -> -3
                      [] numLosers = 3 -> -2
                      [] numLosers = 4 -> -1
                      [] OTHER -> 0
      winnerScore == CASE numLosers = 1 -> 1
                       [] numLosers = 2 -> 2
                       [] numLosers = 3 -> 3
                       [] numLosers = 4 -> 4
                       [] OTHER -> 0
  IN  [type |-> "schwanzer",
       losers |-> losers,
       winners |-> winners,
       maxSchwanzerPoints |-> maxSchwanzerPoints,
       scores |-> [p \in Seats |->
                     IF playerSchwanzerPoints[p] = maxSchwanzerPoints
                       THEN loserScore ELSE winnerScore],
       playerSchwanzerPoints |-> playerSchwanzerPoints]

(***************************************************************************)
(* pick(playerId, wantsToPick)                                             *)
(***************************************************************************)
(* the rejection pick returns, "" when it accepts the call *)
(* a pick that checks the phase and not whose turn it is *)
pickErrorAnySeat(playerId) ==
  IF phase # "picking" THEN "Not in picking phase" ELSE ""

(* a pick that checks whose turn it is and not the phase *)
pickErrorAnyPhase(playerId) ==
  IF pickingIndex # playerId THEN "Not your turn to pick" ELSE ""

pickError(playerId) ==
  IF phase # "picking" THEN "Not in picking phase"
  ELSE IF pickingIndex # playerId THEN "Not your turn to pick"
  ELSE ""

(* a pick that goes straight to the bury, the call coming after it *)
phaseAfterPickBuryFirst == "burying"

(* the phase an accepted pick moves to: the picker calls with all eight cards *)
phaseAfterPick == "calling"

(* a Schwanzer declared one pass early, when the fourth seat has passed *)
everyonePassedButOne(passed) == Len(passed) = NUM_PLAYERS - 1

(* this.passedPlayers.length === NUM_PLAYERS *)
everyonePassed(passed) == Len(passed) = NUM_PLAYERS

pick(playerId, wantsToPick) ==
  IF pickError(playerId) # ""
    THEN /\ ret' = failure(pickError(playerId))
         /\ UNCHANGED handState
  ELSE IF wantsToPick
    THEN /\ picker' = playerId
         /\ hands' = [hands EXCEPT ![playerId] = sortHand(hands[playerId] \o blind)]
         /\ blind' = <<>>
         /\ phase' = phaseAfterPick
         /\ ret' = [success |-> TRUE, picked |-> TRUE]
         /\ UNCHANGED <<buried, dealerIndex, currentPlayerIndex, pickingIndex,
                        passedPlayers, partner, calledSuit, calledRank, isUnderCall,
                        underCardId, underCardPlayed, calledSuitFirstTrick,
                        currentTrick, tricks, tricksWon, lastTrick, isSchwanzer,
                        handResults>>
  ELSE
    /\ passedPlayers' = Append(passedPlayers, playerId)
    /\ pickingIndex' = (pickingIndex + 1) % NUM_PLAYERS
    /\ currentPlayerIndex' = (pickingIndex + 1) % NUM_PLAYERS
    /\ IF everyonePassed(Append(passedPlayers, playerId))
         THEN /\ isSchwanzer' = TRUE
              /\ phase' = "scoring"
              /\ handResults' = scoreSchwanzer(hands)
              /\ dealerIndex' = (dealerIndex + 1) % NUM_PLAYERS
              /\ ret' = [success |-> TRUE, schwanzer |-> TRUE, handComplete |-> TRUE,
                         results |-> scoreSchwanzer(hands)]
         ELSE /\ ret' = [success |-> TRUE, passed |-> TRUE]
              /\ UNCHANGED <<isSchwanzer, phase, handResults, dealerIndex>>
    /\ UNCHANGED <<hands, blind, buried, picker, partner, calledSuit, calledRank,
                   isUnderCall, underCardId, underCardPlayed, calledSuitFirstTrick,
                   currentTrick, tricks, tricksWon, lastTrick>>

(***************************************************************************)
(* getCallableOptions(playerId), on the picker's hand                      *)
(***************************************************************************)
(* a resolver that never finds a fail 10 in the hand *)
hasThis10Never(hand, suit) == FALSE

(* hasThis10: the hand holds the 10 of the fail suit *)
hasThis10(hand, suit) ==
  \E i \in 1 .. Len(hand) :
    suitOf(hand[i]) = suit /\ rankOf(hand[i]) = "10" /\ ~isTrump(hand[i])

(* a resolver that takes every fail suit as held *)
hasFailInThisSuitAlways(hand, suit) == TRUE

(* hasFailInThisSuit: the hand holds a non-trump card of the suit *)
hasFailInThisSuit(hand, suit) ==
  \E i \in 1 .. Len(hand) : suitOf(hand[i]) = suit /\ ~isTrump(hand[i])

getCallableOptions(hand) ==
  LET acesHeld == SelectSeq(FAIL_SUITS, LAMBDA suit : hasAce(hand, suit))
      tensHeld == SelectSeq(FAIL_SUITS, LAMBDA suit : hasThis10(hand, suit))
      failSuitsWithoutAce ==
        SelectSeq(FAIL_SUITS,
                  LAMBDA suit : hasFailInThisSuit(hand, suit) /\ ~hasAce(hand, suit))
      option(suit, rank, type) == [suit |-> suit, rank |-> rank, type |-> type]
      tenOptions ==
        LET suits == SelectSeq(FAIL_SUITS, LAMBDA suit : ~includes(tensHeld, suit))
        IN  [i \in 1 .. Len(suits) |-> option(suits[i], "10", "under")]
      normalOptions ==
        [i \in 1 .. Len(failSuitsWithoutAce) |-> option(failSuitsWithoutAce[i], "A", "normal")]
      underOptions ==
        LET suits == SelectSeq(FAIL_SUITS, LAMBDA suit : ~includes(acesHeld, suit))
        IN  [i \in 1 .. Len(suits) |-> option(suits[i], "A", "under")]
  IN  IF Len(acesHeld) = 3
        THEN IF Len(tenOptions) = 0
               THEN [goAlone |-> TRUE, options |-> <<>>, mustSelectUnderCard |-> FALSE,
                     reason |-> "Have all 3 fail aces and all fail 10s"]
             ELSE [goAlone |-> FALSE, options |-> tenOptions, mustSelectUnderCard |-> TRUE,
                   reason |-> ""]
      ELSE IF Len(failSuitsWithoutAce) > 0
        THEN [goAlone |-> FALSE, options |-> normalOptions, mustSelectUnderCard |-> FALSE,
              reason |-> ""]
      ELSE IF Len(underOptions) = 0
        THEN [goAlone |-> TRUE, options |-> <<>>, mustSelectUnderCard |-> FALSE,
              reason |-> "No valid call options"]
      ELSE [goAlone |-> FALSE, options |-> underOptions, mustSelectUnderCard |-> TRUE,
            reason |-> ""]

(* a find that takes the first option whatever its suit *)
findOptionFirst(options, suit) == IF Len(options) > 0 THEN 1 ELSE 0

(* callableOptions.options.find(o => o.suit === suit): its index, 0 when there is none *)
findOption(options, suit) ==
  IF \E i \in 1 .. Len(options) : options[i].suit = suit
    THEN CHOOSE i \in 1 .. Len(options) :
           options[i].suit = suit /\ \A j \in 1 .. (i - 1) : options[j].suit # suit
    ELSE 0

(***************************************************************************)
(* callAce(playerId, suit, goAlone, underCardId)                           *)
(***************************************************************************)
(* an under call that takes any id for the under card, held or not *)
underCardErrorNullOnly(playerId, underCard) ==
  IF underCard = null THEN "Under call requires selecting an under card" ELSE ""

(* the checks of the under card an under call names *)
underCardError(playerId, underCard) ==
  IF underCard = null THEN "Under call requires selecting an under card"
  ELSE IF ~includes(hands[playerId], underCard) THEN "Under card not in hand"
  ELSE ""

(* a call that is also taken after the call, while burying and playing *)
inCallingPhaseOrLater == phase \in {"calling", "burying", "playing"}

(* this.phase === PHASES.CALLING *)
inCallingPhase == phase = "calling"

(* the rejection callAce returns, "" when it accepts the call *)
callAceError(playerId, suit, goAlone, underCard) ==
  IF ~inCallingPhase THEN "Not in calling phase"
  ELSE IF picker # playerId THEN "You are not the picker"
  ELSE IF goAlone THEN ""
  ELSE
    LET callableOptions == getCallableOptions(hands[playerId])
        validOption == findOption(callableOptions.options, suit)
    IN  IF callableOptions.goAlone THEN "You must go alone - " \o callableOptions.reason
        ELSE IF validOption = 0 THEN "Cannot call that suit"
        ELSE IF callableOptions.options[validOption].type = "under"
                \/ callableOptions.mustSelectUnderCard
          THEN underCardError(playerId, underCard)
        ELSE ""

callAce(playerId, suit, goAlone, underCard) ==
  LET error == callAceError(playerId, suit, goAlone, underCard)
  IN
  IF error # ""
    THEN /\ ret' = failure(error)
         /\ UNCHANGED handState
  ELSE IF goAlone
    THEN /\ calledSuit' = nullSuit
         /\ calledRank' = "A"
         /\ partner' = null
         /\ isUnderCall' = FALSE
         /\ underCardId' = null
         /\ phase' = "burying"
         /\ ret' = [success |-> TRUE, goAlone |-> TRUE]
         /\ UNCHANGED <<hands, blind, buried, dealerIndex, currentPlayerIndex,
                        pickingIndex, passedPlayers, picker, underCardPlayed,
                        calledSuitFirstTrick, currentTrick, tricks, tricksWon,
                        lastTrick, isSchwanzer, handResults>>
  ELSE
    LET callableOptions == getCallableOptions(hands[playerId])
        validOption == callableOptions.options[findOption(callableOptions.options, suit)]
        under == validOption.type = "under" \/ callableOptions.mustSelectUnderCard
    IN  /\ underCardId' = (IF under THEN underCard ELSE null)
        /\ isUnderCall' = under
        /\ calledSuit' = suit
        /\ calledRank' = validOption.rank
        /\ partner' = null
        /\ phase' = "burying"
        /\ ret' = [success |-> TRUE, calledSuit |-> suit, calledRank |-> validOption.rank,
                   isUnderCall |-> under,
                   underCardId |-> (IF under THEN underCard ELSE null)]
        /\ UNCHANGED <<hands, blind, buried, dealerIndex, currentPlayerIndex,
                       pickingIndex, passedPlayers, picker, underCardPlayed,
                       calledSuitFirstTrick, currentTrick, tricks, tricksWon,
                       lastTrick, isSchwanzer, handResults>>

(***************************************************************************)
(* bury(playerId, cardIds)                                                 *)
(***************************************************************************)
(* this.underCardId && cardIds.includes(this.underCardId) *)
buriesUnderCard(cardIds) == underCardId # null /\ includes(cardIds, underCardId)

(* a hold-card count that takes a Queen or Jack of the suit for a card of it *)
remainingInCalledSuitBySuit(remainingHand) ==
  SelectSeq(remainingHand, LAMBDA c : suitOf(c) = calledSuit)

(* the cards of the called suit left in the hand: its non-trump cards *)
remainingInCalledSuit(remainingHand) ==
  SelectSeq(remainingHand, LAMBDA c : suitOf(c) = calledSuit /\ ~isTrump(c))

(* the rejection bury returns, "" when it accepts the cards *)
buryError(playerId, cardIds) ==
  IF phase # "burying" THEN "Not in burying phase"
  ELSE IF picker # playerId THEN "You are not the picker"
  ELSE IF Len(cardIds) # BLIND_SIZE THEN "Must bury exactly 2 cards"
  ELSE
    LET hand == hands[playerId]
        toBury == cardIds
        nonPointTrump == SelectSeq(toBury, LAMBDA c : rankOf(c) = "Q" \/ rankOf(c) = "J")
        otherCards == SelectSeq(hand, LAMBDA c :
                        ~includes(cardIds, c) /\ rankOf(c) # "Q" /\ rankOf(c) # "J")
        remainingHand == SelectSeq(hand, LAMBDA c : ~includes(cardIds, c))
    IN  IF \E i \in 1 .. Len(cardIds) : ~includes(hand, cardIds[i]) THEN "Card not in hand"
        ELSE IF buriesUnderCard(cardIds)
          THEN "Cannot bury your under card"
        ELSE IF Len(nonPointTrump) > 0 /\ Len(otherCards) >= BLIND_SIZE
          THEN "Cannot bury Queens or Jacks if you have other options"
        ELSE IF calledSuit # nullSuit /\ Len(remainingInCalledSuit(remainingHand)) = 0
          THEN "Must keep at least one " \o calledSuit \o " card (hold card for called suit)"
        ELSE ""

bury(playerId, cardIds) ==
  LET error == buryError(playerId, cardIds)
  IN
  IF error # ""
    THEN /\ ret' = failure(error)
         /\ UNCHANGED handState
  ELSE
    /\ hands' = [hands EXCEPT ![playerId] =
                   SelectSeq(hands[playerId], LAMBDA c : ~includes(cardIds, c))]
    /\ buried' = cardIds
    /\ phase' = "playing"
    /\ currentPlayerIndex' = (dealerIndex + 1) % NUM_PLAYERS
    /\ ret' = [success |-> TRUE]
    /\ UNCHANGED <<blind, dealerIndex, pickingIndex, passedPlayers, picker, partner,
                   calledSuit, calledRank, isUnderCall, underCardId, underCardPlayed,
                   calledSuitFirstTrick, currentTrick, tricks, tricksWon, lastTrick,
                   isSchwanzer, handResults>>

(***************************************************************************)
(* _scoreNormalHand(), on the fields as _completeHand finds them.  won[p]  *)
(* lists the tricks seat p won as indices into ts (the code pushes the     *)
(* same trick object on this.tricks and on this.tricksWon[winner]).        *)
(***************************************************************************)
(* a solo picker paid the partnered share, a partnered picker the solo share *)
pickerMultiplierSwapped(isAlone) == IF isAlone THEN 2 ELSE 4

(* a picker who always takes the double share, partner or not *)
pickerMultiplierAlwaysTwo(isAlone) == 2

(* the picker's share: four times the stake alone, twice with a partner *)
pickerMultiplier(isAlone) == IF isAlone THEN 4 ELSE 2

(* a picking side that needs more than the threshold to win *)
pickersWinAboveThreshold(pickingPoints) == pickingPoints > WIN_THRESHOLD

(* let pickersWin = pickingPoints >= WIN_THRESHOLD *)
pickersWinWith(pickingPoints) == pickingPoints >= WIN_THRESHOLD

(* the two ifs the other way round: schneider written last, over schwarz *)
multiplierSchneiderLast(schneider, schwarz) ==
  IF schneider THEN 2 ELSE IF schwarz THEN 3 ELSE 1

(* multiplier = 1; schneider sets 2; schwarz, tested after it, sets 3 *)
multiplierOf(schneider, schwarz) ==
  IF schwarz THEN 3 ELSE IF schneider THEN 2 ELSE 1

scoreNormalHand(ts, won, bur, pickerId, partnerId) ==
  LET trickPoints(p) == SumSeq([i \in 1 .. Len(won[p]) |-> ts[won[p][i]].points])
      buriedPoints == calculatePoints(bur)
      playerPoints == [p \in Seats |->
                         trickPoints(p) + (IF p = pickerId THEN buriedPoints ELSE 0)]
      pickingTeam == IF partnerId # null /\ partnerId # pickerId
                       THEN <<pickerId, partnerId>> ELSE <<pickerId>>
      defendingTeam == seatsWhere({p \in Seats : ~includes(pickingTeam, p)})
      teamSum(team, f) == SumSeq([i \in 1 .. Len(team) |-> f[team[i]]])
      pickingPoints == teamSum(pickingTeam, playerPoints)
      defendingPoints == TOTAL_POINTS - pickingPoints
      pickersWin == pickersWinWith(pickingPoints)
      losingPoints == IF pickersWin THEN defendingPoints ELSE pickingPoints
      trickCount == [p \in Seats |-> Len(won[p])]
      pickingTeamTricks == teamSum(pickingTeam, trickCount)
      defendingTeamTricks == teamSum(defendingTeam, trickCount)
      losingTeamTricks == IF pickersWin THEN defendingTeamTricks ELSE pickingTeamTricks
      schneider == losingPoints < WIN_THRESHOLD - 30
      schwarz == losingTeamTricks = 0
      multiplier == multiplierOf(schneider, schwarz)
      isAlone == partnerId = null \/ partnerId = pickerId
  IN  [type |-> "normal",
       picker |-> pickerId,
       partner |-> partnerId,
       calledSuit |-> calledSuit,
       pickingTeam |-> pickingTeam,
       defendingTeam |-> defendingTeam,
       pickingPoints |-> pickingPoints,
       defendingPoints |-> defendingPoints,
       pickingTeamTricks |-> pickingTeamTricks,
       defendingTeamTricks |-> defendingTeamTricks,
       buriedPoints |-> buriedPoints,
       pickersWin |-> pickersWin,
       schneider |-> schneider,
       schwarz |-> schwarz,
       multiplier |-> multiplier,
       scores |-> [p \in Seats |->
                     IF p = pickerId
                       THEN (IF pickersWin THEN multiplier * pickerMultiplier(isAlone)
                             ELSE (-multiplier) * pickerMultiplier(isAlone))
                     ELSE IF p = partnerId
                       THEN (IF pickersWin THEN multiplier ELSE -multiplier)
                     ELSE (IF pickersWin THEN -multiplier ELSE multiplier)],
       playerPoints |-> playerPoints]

(***************************************************************************)
(* playCard(playerId, cardId), with _completeTrick and _completeHand       *)
(***************************************************************************)
isLeading == Len(currentTrick) = 0

isPlayingUnderCard(playerId, card) ==
  /\ isUnderCall
  /\ underCardId # null
  /\ ~underCardPlayed
  /\ playerId = picker
  /\ card = underCardId

mustPlayUnderCard(playerId) ==
  /\ isUnderCall
  /\ underCardId # null
  /\ ~underCardPlayed
  /\ playerId = picker
  /\ ~isLeading
  /\ getEffectiveSuit(currentTrick[1].card) = calledSuit

(* the playableCards playCard computes for the seat *)
playableCards(playerId) ==
  LET hand == hands[playerId]
      isPicker == playerId = picker
      hasCalledAce ==
        /\ calledSuit # nullSuit
        /\ ~isPicker
        /\ \E i \in 1 .. Len(hand) :
             suitOf(hand[i]) = calledSuit /\ rankOf(hand[i]) = calledRank
  IN  getPlayableCards(hand, currentTrick, calledSuit, ~calledSuitFirstTrick,
                       isPicker, hasCalledAce)

(* the seat that plays the next card of a trick under way *)
nextPlayerAgain == currentPlayerIndex

nextPlayer == (currentPlayerIndex + 1) % NUM_PLAYERS

(* the card is the called card: of the called suit and the called rank *)
playsCalledAce(card) == suitOf(card) = calledSuit /\ rankOf(card) = "A"

playsCalledCard(card) == suitOf(card) = calledSuit /\ rankOf(card) = calledRank

(* the rejection playCard returns, "" when it accepts the card *)
playCardError(playerId, card) ==
  IF phase # "playing" /\ phase # "schwanzer" THEN "Not in playing phase"
  ELSE IF currentPlayerIndex # playerId THEN "Not your turn"
  ELSE IF mustPlayUnderCard(playerId) /\ card # underCardId
    THEN "You must play your under card when the called suit is led"
  ELSE IF ~includes(hands[playerId], card) THEN "Card not in hand"
  ELSE IF ~mustPlayUnderCard(playerId) /\ ~includes(playableCards(playerId), card)
    THEN "Cannot play that card"
  ELSE ""

playCard(playerId, card) ==
  LET error == playCardError(playerId, card)
  IN
  IF error # ""
    THEN
      /\ ret' = failure(error)
      (* underCardPlayed is set before the playable check *)
      /\ underCardPlayed' =
           (IF error = "Cannot play that card" /\ isPlayingUnderCard(playerId, card)
              THEN TRUE ELSE underCardPlayed)
      /\ UNCHANGED <<hands, blind, buried, phase, dealerIndex, currentPlayerIndex,
                     pickingIndex, passedPlayers, picker, partner, calledSuit,
                     calledRank, isUnderCall, underCardId, calledSuitFirstTrick,
                     currentTrick, tricks, tricksWon, lastTrick, isSchwanzer,
                     handResults>>
  ELSE
    LET isUnderCard == isPlayingUnderCard(playerId, card)
        newHands == [hands EXCEPT ![playerId] = SelectSeq(hands[playerId], LAMBDA c : c # card)]
        newTrick == Append(currentTrick,
                           [playerId |-> playerId, card |-> card, isUnderCard |-> isUnderCard])
        revealsCalled ==
          /\ calledSuit # nullSuit
          /\ partner = null
          /\ ~isUnderCard
          /\ playsCalledCard(card)
        newPartner == IF revealsCalled THEN playerId
                      ELSE IF isUnderCard /\ partner = null THEN playerId
                      ELSE partner
        partnerRevealed == revealsCalled \/ (isUnderCard /\ partner = null)
        (* _completeTrick *)
        eligiblePlays == SelectSeq(newTrick, LAMBDA t : ~t.isUnderCard)
        winner == determineTrickWinner(eligiblePlays)
        points == calculatePoints([i \in 1 .. Len(newTrick) |-> newTrick[i].card])
        completedTrick == [cards |-> newTrick, winner |-> winner, points |-> points]
        newTricks == Append(tricks, completedTrick)
        newTricksWon == [tricksWon EXCEPT ![winner] = Append(@, Len(newTricks))]
        (* _completeHand *)
        results == IF isSchwanzer THEN scoreSchwanzer(newHands)
                   ELSE scoreNormalHand(newTricks, newTricksWon, buried, picker, newPartner)
    IN
      /\ underCardPlayed' = (IF isUnderCard THEN TRUE ELSE underCardPlayed)
      /\ hands' = newHands
      /\ partner' = newPartner
      /\ calledSuitFirstTrick' =
           (IF calledSuit # nullSuit /\ isLeading /\ getEffectiveSuit(card) = calledSuit
              THEN FALSE ELSE calledSuitFirstTrick)
      /\ IF Len(newTrick) = NUM_PLAYERS
           THEN
             /\ tricks' = newTricks
             /\ tricksWon' = newTricksWon
             /\ lastTrick' = newTrick
             /\ currentTrick' = <<>>
             /\ currentPlayerIndex' = winner
             /\ IF Len(newHands[0]) = 0
                  THEN /\ phase' = "scoring"
                       /\ handResults' = results
                       /\ dealerIndex' = (dealerIndex + 1) % NUM_PLAYERS
                       /\ ret' = [success |-> TRUE, trickComplete |-> TRUE,
                                  trick |-> newTrick,
                                  winner |-> determineTrickWinner(newTrick),
                                  points |-> points,
                                  partnerRevealed |->
                                    (IF partnerRevealed THEN newPartner ELSE null),
                                  handComplete |-> TRUE,
                                  results |-> results]
                  ELSE /\ ret' = [success |-> TRUE, trickComplete |-> TRUE,
                                  trick |-> newTrick, winner |-> winner,
                                  points |-> points,
                                  partnerRevealed |->
                                    (IF partnerRevealed THEN newPartner ELSE null),
                                  handComplete |-> FALSE]
                       /\ UNCHANGED <<phase, handResults, dealerIndex>>
           ELSE
             /\ currentTrick' = newTrick
             /\ currentPlayerIndex' = nextPlayer
             /\ ret' = [success |-> TRUE, card |-> card, isUnderCard |-> isUnderCard,
                        partnerRevealed |-> (IF partnerRevealed THEN playerId ELSE null),
                        trickComplete |-> FALSE]
             /\ UNCHANGED <<tricks, tricksWon, lastTrick, phase, handResults, dealerIndex>>
      /\ UNCHANGED <<blind, buried, pickingIndex, passedPlayers, picker, calledSuit,
                     calledRank, isUnderCall, underCardId, isSchwanzer>>

(***************************************************************************)
(* The calls the model makes.  Every rejected call is made; of the calls   *)
(* the program accepts, the ones within the bounds.                        *)
(***************************************************************************)
playsSoFar == NUM_PLAYERS * Len(tricks) + Len(currentTrick)

(* position of a card in a hand, 0 when absent *)
position(hand, card) == indexOf(hand, card) + 1

PlayInput(playerId, card) ==
  \/ playCardError(playerId, card) # ""
  \/ playsSoFar < FreePlays
  \/ \A i \in 1 .. (position(hands[playerId], card) - 1) :
       playCardError(playerId, hands[playerId][i]) # ""

BuryInput(playerId, cardIds) ==
  \/ buryError(playerId, cardIds) # ""
  \/ /\ \A i \in 1 .. Len(cardIds) :
          position(hands[playerId], cardIds[i]) > Len(hands[playerId]) - BuryWindow
     /\ position(hands[playerId], cardIds[1]) <= position(hands[playerId], cardIds[2])

CallInput(playerId, suit, goAlone, underCard) ==
  \/ callAceError(playerId, suit, goAlone, underCard) # ""
  \/ underCard = null
  \/ position(hands[playerId], underCard) <= MaxUnder

(* a card id that is in no hand: the call names a card the seat does not hold *)
notHeld(playerId) ==
  CHOOSE c \in Cards : ~includes(hands[playerId], c)
                       /\ \A d \in 0 .. (c - 1) : includes(hands[playerId], d)

handOf(playerId) == {hands[playerId][i] : i \in 1 .. Len(hands[playerId])}

(* the arguments tried for a seat: over its hand and one card it does not hold
   when the call passes the phase and seat checks, one argument otherwise *)
PickArgs(playerId) ==
  IF phase = "picking" /\ playerId = pickingIndex THEN BOOLEAN ELSE {TRUE}

CallArgs(playerId) ==
  IF phase = "calling" /\ playerId = picker
    THEN {"diamonds", "hearts", "spades", "clubs"} \X BOOLEAN
           \X (handOf(playerId) \cup {notHeld(playerId), null})
    ELSE {<<"hearts", FALSE, null>>}

BuryArgs(playerId) ==
  IF phase = "burying" /\ playerId = picker
    THEN LET ids == handOf(playerId) \cup {notHeld(playerId)}
         IN  (ids \X ids) \cup {<<notHeld(playerId)>>}
               \cup {<<notHeld(playerId), notHeld(playerId), notHeld(playerId)>>}
    ELSE {<<0, 1>>}

PlayArgs(playerId) ==
  IF phase = "playing" /\ playerId = currentPlayerIndex
    THEN handOf(playerId) \cup {notHeld(playerId)}
    ELSE {0}

Pick == \E playerId \in Seats : \E wantsToPick \in PickArgs(playerId) :
          pick(playerId, wantsToPick)

StartHand == startHand(shuffle[(dealerIndex % Len(shuffle)) + 1])

CallAce ==
  \E playerId \in Seats : \E args \in CallArgs(playerId) :
    /\ CallInput(playerId, args[1], args[2], args[3])
    /\ callAce(playerId, args[1], args[2], args[3])

Bury ==
  \E playerId \in Seats : \E cardIds \in BuryArgs(playerId) :
    /\ BuryInput(playerId, cardIds)
    /\ bury(playerId, cardIds)

PlayCard ==
  \E playerId \in Seats : \E card \in PlayArgs(playerId) :
    /\ PlayInput(playerId, card)
    /\ playCard(playerId, card)

Next == StartHand \/ Pick \/ CallAce \/ Bury \/ PlayCard

Spec == Init /\ [][Next]_vars

(***************************************************************************)
(* C1: every pick, callAce, bury or playCard call that returns             *)
(* success: false leaves the whole hand state as it was before the call.   *)
(***************************************************************************)
C1_RejectionLeavesHandUnchanged ==
  [][ret'.success = FALSE => UNCHANGED handState]_vars

(***************************************************************************)
(* Where the cards are: the five hands, the blind, the buried pile, the    *)
(* current trick and the completed tricks, one after the other.            *)
(***************************************************************************)
RECURSIVE Flatten(_)
Flatten(seqs) == IF seqs = <<>> THEN <<>> ELSE Head(seqs) \o Flatten(Tail(seqs))

cardsOf(plays) == [i \in 1 .. Len(plays) |-> plays[i].card]

cardsInPlay ==
  Flatten([i \in 1 .. NUM_PLAYERS |-> hands[i - 1]])
    \o blind \o buried \o cardsOf(currentTrick)
    \o Flatten([i \in 1 .. Len(tricks) |-> cardsOf(tricks[i].cards)])

occurrences(seq, x) == Cardinality({i \in 1 .. Len(seq) : seq[i] = x})

(***************************************************************************)
(* C2: from startHand on, each of the 32 cards is in exactly one place     *)
(* among the five hands, the blind, the buried pile, the current trick     *)
(* and the completed tricks.                                               *)
(***************************************************************************)
C2_CardsPartitioned ==
  phase # "waiting" => \A c \in Cards : occurrences(cardsInPlay, c) = 1

(***************************************************************************)
(* C3: in every state with phase = playing, the seat whose turn it is      *)
(* holds at least one card that playCard accepts.                          *)
(***************************************************************************)
C3_SeatToActCanPlay ==
  phase = "playing" =>
    \E i \in 1 .. Len(hands[currentPlayerIndex]) :
      playCardError(currentPlayerIndex, hands[currentPlayerIndex][i]) = ""

(***************************************************************************)
(* C4: in every state with phase = burying, whichever call led there,      *)
(* the picker's hand contains a pair of cards that bury accepts.           *)
(***************************************************************************)
C4_SomeBuryAccepted ==
  phase = "burying" =>
    \E i, j \in 1 .. Len(hands[picker]) :
      buryError(picker, <<hands[picker][i], hands[picker][j]>>) = ""

(***************************************************************************)
(* C5: after an under call, a completed trick in which the picker played   *)
(* the designated under card is never recorded as won by the picker.       *)
(***************************************************************************)
C5_UnderCardNeverWins ==
  \A i \in 1 .. Len(tricks) : \A j \in 1 .. Len(tricks[i].cards) :
    (/\ isUnderCall
     /\ tricks[i].cards[j].playerId = picker
     /\ tricks[i].cards[j].card = underCardId)
      => tricks[i].winner # picker

(***************************************************************************)
(* C6: partner is null until a seat plays the called card (called suit     *)
(* and called rank) or the picker plays the under card; from then on       *)
(* partner is the seat of the first such play, whatever is played later.   *)
(***************************************************************************)
C6_PartnerIsFirstReveal ==
  LET plays == Flatten([i \in 1 .. Len(tricks) |-> tricks[i].cards]) \o currentTrick
      reveals(t) ==
        \/ /\ calledSuit # nullSuit
           /\ suitOf(t.card) = calledSuit
           /\ rankOf(t.card) = calledRank
        \/ /\ isUnderCall
           /\ t.playerId = picker
           /\ t.card = underCardId
      revealing == SelectSeq(plays, reveals)
  IN  IF revealing = <<>> THEN partner = null
      ELSE partner = revealing[1].playerId

C8_OnlyTheSeatToAct ==
  [][/\ (picker' # picker /\ picker' # null) => picker' = pickingIndex
     /\ Len(passedPlayers') > Len(passedPlayers)
          => passedPlayers' = Append(passedPlayers, pickingIndex)
     /\ Len(currentTrick') > Len(currentTrick)
          => /\ Len(currentTrick') = Len(currentTrick) + 1
             /\ SubSeq(currentTrick', 1, Len(currentTrick)) = currentTrick
             /\ currentTrick'[Len(currentTrick')].playerId = currentPlayerIndex
     /\ Len(tricks') > Len(tricks)
          => /\ tricks' = Append(tricks, tricks'[Len(tricks')])
             /\ SubSeq(tricks'[Len(tricks')].cards, 1, Len(currentTrick)) = currentTrick
             /\ tricks'[Len(tricks')].cards[NUM_PLAYERS].playerId = currentPlayerIndex
     /\ ret'.success = FALSE
          => UNCHANGED <<hands, blind, buried, picker, passedPlayers, currentTrick,
                         tricks, tricksWon, pickingIndex, currentPlayerIndex, phase>>
    ]_vars

C8_Witness ==
  /\ ret.success = FALSE
  /\ phase = "playing"
  /\ Len(passedPlayers) = 2
  /\ picker = passedPlayers[2] + 1
  /\ Len(tricks) = 1
  /\ Len(currentTrick) = 3
  /\ currentPlayerIndex = (currentTrick[3].playerId + 1) % NUM_PLAYERS

C10_TrickAndBuriedPointsAre120 ==
  (phase = "scoring" /\ ~isSchwanzer) =>
    SumSeq([i \in 1 .. Len(tricks) |-> tricks[i].points]) + calculatePoints(buried)
      = TOTAL_POINTS

(***************************************************************************)
(* Scoring a normal hand on its own.  ScoreInit is a game of five seated   *)
(* players whose hand has been played out, set up the way                  *)
(* setupScoringGame of tests/scoring.test.js sets it up: picker, partner,  *)
(* buried and the tricks each seat won are given, the trick points on the  *)
(* first trick of each side; ScoreNormalHand is a call of                  *)
(* _scoreNormalHand() on it, ret its return value.                         *)
(***************************************************************************)
(* the buried piles tried: none, and the ace and ten of clubs *)
ScoreBuried == {<<>>, <<31, 27>>}

(* the six tricks: the first pickingTricks of them won by the picking side,
   seat first taking the odd ones, the others by the defenders in turn;
   pickingTrickPoints on the first trick of the picking side and the rest
   of the 120 points on the first trick of the defenders *)
scoringTricks(pickerId, partnerId, bur, first, pickingTricks, pickingTrickPoints) ==
  LET distinct == partnerId # null /\ partnerId # pickerId
      other == IF first = pickerId THEN partnerId ELSE pickerId
      defenders == seatsWhere({p \in Seats : p # pickerId /\ ~(distinct /\ p = partnerId)})
      rest == TOTAL_POINTS - calculatePoints(bur) - pickingTrickPoints
  IN  [j \in 1 .. CARDS_PER_PLAYER |->
         IF j <= pickingTricks
           THEN [cards |-> <<>>,
                 winner |-> IF distinct /\ j % 2 = 0 THEN other ELSE first,
                 points |-> IF j = 1 THEN pickingTrickPoints ELSE 0]
           ELSE [cards |-> <<>>,
                 winner |-> defenders[((j - pickingTricks - 1) % Len(defenders)) + 1],
                 points |-> IF j = pickingTricks + 1 THEN rest ELSE 0]]

ScoreInit ==
  \E pickerId \in Seats, partnerId \in Seats \cup {null}, bur \in ScoreBuried,
     pickingTricks \in 0 .. CARDS_PER_PLAYER :
  \E first \in {pickerId} \cup ({partnerId} \ {null}),
     pickingTrickPoints \in 0 .. (TOTAL_POINTS - calculatePoints(bur)) :
    LET ts == scoringTricks(pickerId, partnerId, bur, first, pickingTricks,
                            pickingTrickPoints)
    IN
    /\ pickingTricks = 0 => pickingTrickPoints = 0
    /\ pickingTricks = CARDS_PER_PLAYER
         => pickingTrickPoints = TOTAL_POINTS - calculatePoints(bur)
    /\ hands = [p \in Seats |-> <<>>]
    /\ blind = <<>>
    /\ buried = bur
    /\ phase = "scoring"
    /\ dealerIndex = 0
    /\ currentPlayerIndex = 0
    /\ pickingIndex = 0
    /\ passedPlayers = <<>>
    /\ picker = pickerId
    /\ partner = partnerId
    /\ calledSuit = nullSuit
    /\ calledRank = "A"
    /\ isUnderCall = FALSE
    /\ underCardId = null
    /\ underCardPlayed = FALSE
    /\ calledSuitFirstTrick = TRUE
    /\ currentTrick = <<>>
    /\ tricks = ts
    /\ tricksWon = [p \in Seats |->
                      SelectSeq([j \in 1 .. CARDS_PER_PLAYER |-> j],
                                LAMBDA j : ts[j].winner = p)]
    /\ lastTrick = <<>>
    /\ isSchwanzer = FALSE
    /\ handResults = noResults
    /\ ret = noResults

ScoreNormalHand ==
  /\ ret' = scoreNormalHand(tricks, tricksWon, buried, picker, partner)
  /\ UNCHANGED handState

ScoreNext == ScoreNormalHand

ScoreSpec == ScoreInit /\ [][ScoreNext]_vars

(* the hand as the seats see it: is the partner a seat other than the picker,
   which seats are on the picking side, what that side took *)
hasDistinctPartner == partner # null /\ partner # picker

onPickingSide(p) == p = picker \/ (hasDistinctPartner /\ p = partner)

pickingSidePoints ==
  SumSeq([j \in 1 .. Len(tricks) |->
            IF onPickingSide(tricks[j].winner) THEN tricks[j].points ELSE 0])
    + calculatePoints(buried)

pickingSideTricks ==
  Cardinality({j \in 1 .. Len(tricks) : onPickingSide(tricks[j].winner)})

(***************************************************************************)
(* C11: a picking-side win is a schneider exactly when the picking side    *)
(* has 91 points or more, a defenders' win exactly when the picking side   *)
(* has 30 or fewer; 90 picking points is a win without schneider, at       *)
(* multiplier 1.                                                           *)
(***************************************************************************)
C11_SchneiderAsymmetric ==
  ret.type = "normal" =>
    /\ ret.pickersWin => (ret.schneider <=> pickingSidePoints >= 91)
    /\ ~ret.pickersWin => (ret.schneider <=> pickingSidePoints <= 30)
    /\ pickingSidePoints = 90
         => (ret.pickersWin /\ ~ret.schneider /\ ret.multiplier = 1)

(***************************************************************************)
(* C12: the picking side wins exactly when the points of the tricks taken  *)
(* by picker and partner plus the buried cards are 61 or more.             *)
(***************************************************************************)
C12_PickersWinFrom61 ==
  ret.type = "normal" =>
    /\ ret.pickingPoints = pickingSidePoints
    /\ ret.pickersWin <=> pickingSidePoints >= 61

C12_Witness ==
  /\ ret.type = "normal"
  /\ hasDistinctPartner
  /\ calculatePoints(buried) > 0
  /\ Len(tricksWon[partner]) > 0
  /\ pickingSidePoints = 60
  /\ ~ret.pickersWin

(***************************************************************************)
(* C13: the result is schwarz exactly when the losing side took no trick,  *)
(* and then the multiplier is 3 whatever schneider says; a losing side     *)
(* with a trick, even one of 0 points, is not schwarz.                     *)
(***************************************************************************)
C13_SchwarzIffNoTricks ==
  ret.type = "normal" =>
    LET losingSideTricks == IF ret.pickersWin THEN Len(tricks) - pickingSideTricks
                            ELSE pickingSideTricks
    IN  /\ ret.schwarz <=> losingSideTricks = 0
        /\ ret.schwarz => ret.multiplier = 3
        /\ ~ret.schwarz => ret.multiplier = (IF ret.schneider THEN 2 ELSE 1)

C13_Witness ==
  /\ ret.type = "normal"
  /\ ret.pickersWin
  /\ pickingSidePoints = TOTAL_POINTS
  /\ pickingSideTricks = Len(tricks) - 1
  /\ ~ret.schwarz
  /\ ret.schneider
  /\ ret.multiplier = 2

(***************************************************************************)
(* C14: with multiplier m the picker scores 2m with a distinct partner     *)
(* and 4m alone, plus on a win and minus on a loss; the partner scores m   *)
(* with the picker's sign; every other seat scores m with the other sign.  *)
(***************************************************************************)
C14_ScoreDistribution ==
  ret.type = "normal" =>
    LET m == ret.multiplier
        sign == IF ret.pickersWin THEN 1 ELSE -1
    IN  /\ m \in {1, 2, 3}
        /\ \A p \in Seats :
             ret.scores[p] =
               IF p = picker THEN sign * m * (IF hasDistinctPartner THEN 2 ELSE 4)
               ELSE IF hasDistinctPartner /\ p = partner THEN sign * m
               ELSE (-sign) * m

C14_Witness ==
  /\ ret.type = "normal"
  /\ hasDistinctPartner
  /\ ~ret.pickersWin
  /\ ret.multiplier = 2
  /\ ret.scores[picker] = -4
  /\ ret.scores[partner] = -2

(***************************************************************************)
(* Calling on its own.  CallInit is a game of five seated players set up   *)
(* the way setupGameWithHand of tests/calling.test.js sets it up: phase    *)
(* calling, seat 0 the picker, holding eight cards.  The hands tried hold, *)
(* of each fail suit, any of its ace, its 10 and its king, and the         *)
(* highest trumps for the rest.                                            *)
(***************************************************************************)
(* the ranks of a fail suit a picker's hand is built from *)
CallRanks == {"A", "10", "K"}

(* the trumps that fill a picker's hand, highest first *)
CallTrumps == <<29, 21, 13, 5, 28, 20, 12, 4>>

(* the cards of a set, as an array in deck order *)
asArray(cards) == SelectSeq([i \in 1 .. 32 |-> i - 1], LAMBDA c : c \in cards)

pickerHand(heartRanks, spadeRanks, clubRanks) ==
  LET fail == {cardId("hearts", r) : r \in heartRanks}
                \cup {cardId("spades", r) : r \in spadeRanks}
                \cup {cardId("clubs", r) : r \in clubRanks}
      size == CARDS_PER_PLAYER + BLIND_SIZE
  IN  sortHand(asArray(fail) \o SubSeq(CallTrumps, 1, size - Cardinality(fail)))

CallInit ==
  \E heartRanks \in SUBSET CallRanks, spadeRanks \in SUBSET CallRanks,
     clubRanks \in SUBSET CallRanks :
    /\ Cardinality(heartRanks) + Cardinality(spadeRanks) + Cardinality(clubRanks)
         <= CARDS_PER_PLAYER + BLIND_SIZE
    /\ hands = [p \in Seats |->
                  IF p = 0 THEN pickerHand(heartRanks, spadeRanks, clubRanks) ELSE <<>>]
    /\ blind = <<>>
    /\ buried = <<>>
    /\ phase = "calling"
    /\ dealerIndex = 0
    /\ currentPlayerIndex = 0
    /\ pickingIndex = 0
    /\ passedPlayers = <<>>
    /\ picker = 0
    /\ partner = null
    /\ calledSuit = nullSuit
    /\ calledRank = "A"
    /\ isUnderCall = FALSE
    /\ underCardId = null
    /\ underCardPlayed = FALSE
    /\ calledSuitFirstTrick = TRUE
    /\ currentTrick = <<>>
    /\ tricks = <<>>
    /\ tricksWon = [p \in Seats |-> <<>>]
    /\ lastTrick = <<>>
    /\ isSchwanzer = FALSE
    /\ handResults = noResults
    /\ ret = [success |-> TRUE, seatIndex |-> NUM_PLAYERS - 1]

CallNext == CallAce

CallSpec == CallInit /\ [][CallNext]_vars

(* what the picker holds, read off the hand card by card *)
failSuits == {FAIL_SUITS[i] : i \in 1 .. Len(FAIL_SUITS)}

pickerHolds(suit, rank) == includes(hands[picker], cardId(suit, rank))

pickerHoldsFailOf(suit) ==
  \E i \in 1 .. Len(hands[picker]) :
    suitOf(hands[picker][i]) = suit /\ ~isTrump(hands[picker][i])

pickerAces == {suit \in failSuits : pickerHolds(suit, "A")}

pickerTens == {suit \in failSuits : pickerHolds(suit, "10")}

(* the suits of the options the resolver returns *)
optionSuits(callableOptions) ==
  {callableOptions.options[i].suit : i \in 1 .. Len(callableOptions.options)}

(* the under-card arguments a call can carry: a held card, a card not held, none *)
underCardArgs(playerId) == handOf(playerId) \cup {notHeld(playerId), null}

(***************************************************************************)
(* C15: a picker holding all 3 fail aces and not all 3 fail 10s is offered *)
(* exactly the fail suits whose 10 they lack, each with rank 10; callAce   *)
(* on such a suit succeeds without an under card and leaves underCardId    *)
(* unset.                                                                  *)
(***************************************************************************)
C15_CallTenNeedsNoUnderCard ==
  (picker # null /\ pickerAces = failSuits /\ pickerTens # failSuits) =>
    LET callableOptions == getCallableOptions(hands[picker])
    IN  /\ phase = "calling" =>
             /\ ~callableOptions.goAlone
             /\ optionSuits(callableOptions) = failSuits \ pickerTens
             /\ \A i \in 1 .. Len(callableOptions.options) :
                  callableOptions.options[i].rank = "10"
             /\ \A suit \in failSuits \ pickerTens :
                  callAceError(picker, suit, FALSE, null) = ""
        /\ (phase = "burying" /\ calledSuit # nullSuit) =>
             /\ calledRank = "10"
             /\ underCardId = null

C18_MustGoAlone ==
  (picker # null /\ pickerAces = failSuits /\ pickerTens = failSuits) =>
    LET callableOptions == getCallableOptions(hands[picker])
        suits == {SUITS[i] : i \in 1 .. Len(SUITS)}
    IN  /\ phase = "calling" =>
             /\ callableOptions.goAlone
             /\ callableOptions.options = <<>>
             /\ \A suit \in suits, underCard \in underCardArgs(picker) :
                  /\ callAceError(picker, suit, FALSE, underCard) # ""
                  /\ callAceError(picker, suit, TRUE, underCard) = ""
        /\ phase = "burying" =>
             /\ calledSuit = nullSuit
             /\ ~isUnderCall
             /\ underCardId = null

C18_Witness ==
  /\ phase = "burying"
  /\ pickerAces = failSuits
  /\ pickerTens = failSuits
  /\ calledSuit = nullSuit
  /\ ret = [success |-> TRUE, goAlone |-> TRUE]

(***************************************************************************)
(* C19: callAce is rejected unless phase = calling and the caller is the   *)
(* picker; a call that is not go-alone is rejected when the suit is not    *)
(* among the resolver's options for the picker's hand, and an under call   *)
(* when no under card is given or the picker does not hold it.  So a call  *)
(* that is accepted is go-alone, or names an option and, for an under      *)
(* call, a card of the picker's hand.                                      *)
(***************************************************************************)
C19_CallAceRejections ==
  /\ [](\A playerId \in Seats, suit \in {SUITS[i] : i \in 1 .. Len(SUITS)},
           goAlone \in BOOLEAN :
         \A underCard \in underCardArgs(playerId) :
          LET error == callAceError(playerId, suit, goAlone, underCard)
              callableOptions == getCallableOptions(hands[playerId])
              isUnder == \E i \in 1 .. Len(callableOptions.options) :
                           /\ callableOptions.options[i].suit = suit
                           /\ callableOptions.options[i].type = "under"
          IN  /\ (phase # "calling" \/ playerId # picker) => error # ""
              /\ (phase = "calling" /\ playerId = picker /\ ~goAlone) =>
                   /\ suit \notin optionSuits(callableOptions) => error # ""
                   /\ (isUnder /\ ~includes(hands[playerId], underCard)) => error # "")
  /\ [][/\ ret'.success = FALSE
             => UNCHANGED <<phase, calledSuit, calledRank, isUnderCall, underCardId>>
        /\ (phase = "calling" /\ phase' # phase) =>
             /\ phase' = "burying"
             /\ \/ calledSuit' = nullSuit /\ ~isUnderCall' /\ underCardId' = null
                \/ /\ calledSuit' \in optionSuits(getCallableOptions(hands[picker]))
                   /\ isUnderCall' => includes(hands[picker], underCardId')
                   /\ ~isUnderCall' => underCardId' = null]_vars

C19_Witness ==
  /\ phase = "calling"
  /\ ret.success = FALSE
  /\ pickerAces = {"hearts", "spades"}
  /\ ~pickerHoldsFailOf("clubs")
  /\ getCallableOptions(hands[picker]).mustSelectUnderCard

(***************************************************************************)
(* C20: bury never rejects a pair of cards of the picker's hand for being  *)
(* Queens or Jacks, whatever else the picker holds.                        *)
(***************************************************************************)
C20_AnyCardMayBeBuried ==
  phase = "burying" =>
    \A i, j \in 1 .. Len(hands[picker]) :
      buryError(picker, <<hands[picker][i], hands[picker][j]>>)
        # "Cannot bury Queens or Jacks if you have other options"

(***************************************************************************)
(* Calling and burying on a hand of the picker's: the game of CallInit,    *)
(* the picker calling and then burying (setupBuryGame of                   *)
(* tests/calling.test.js sets calledSuit and underCardId by hand; here     *)
(* callAce sets them).                                                     *)
(***************************************************************************)
BuryNext == CallAce \/ Bury

BurySpec == CallInit /\ [][BuryNext]_vars

(* the argument lists of two ids of the picker's hand *)
heldPairs == {<<c, d>> : c \in handOf(picker), d \in handOf(picker)}

(***************************************************************************)
(* C21: bury is rejected when phase is not burying, when the caller is not *)
(* the picker, when the argument does not name exactly 2 different cards   *)
(* (1 or 3 ids, or the same id twice), or when a named id is not a card of *)
(* the picker's hand.                                                      *)
(***************************************************************************)
C21_BuryBasicValidation ==
  \A playerId \in Seats :
    /\ \A cardIds \in BuryArgs(playerId) :
         (\/ phase # "burying"
          \/ playerId # picker
          \/ Len(cardIds) # BLIND_SIZE
          \/ \E i \in 1 .. Len(cardIds) : ~includes(hands[playerId], cardIds[i])
          \/ Cardinality({cardIds[i] : i \in 1 .. Len(cardIds)}) # BLIND_SIZE)
           => buryError(playerId, cardIds) # ""
    /\ (phase = "burying" /\ playerId # picker) =>
         \A cardIds \in heldPairs : buryError(playerId, cardIds) # ""

(***************************************************************************)
(* C22: when a suit was called, bury is rejected if the picker's remaining *)
(* hand would hold no non-trump card of the called suit, and the hold-card *)
(* rule does not reject it if one remains; a picker who went alone has no  *)
(* hold-card restriction and may bury all their fail cards.                *)
(***************************************************************************)
C22_HoldCard ==
  phase = "burying" =>
    \A cardIds \in heldPairs :
      LET error == buryError(picker, cardIds)
          holdCardError ==
            "Must keep at least one " \o calledSuit \o " card (hold card for called suit)"
          kept == {c \in handOf(picker) \ {cardIds[1], cardIds[2]} :
                     suitOf(c) = calledSuit /\ rankOf(c) \notin {"Q", "J"}}
          failCards == {c \in handOf(picker) :
                          suitOf(c) # "diamonds" /\ rankOf(c) \notin {"Q", "J"}}
      IN  /\ (calledSuit # nullSuit /\ kept = {}) => error # ""
          /\ (calledSuit # nullSuit /\ kept # {}) => error # holdCardError
          /\ calledSuit = nullSuit =>
               /\ error # holdCardError
               /\ (cardIds[1] # cardIds[2] /\ failCards = {cardIds[1], cardIds[2]})
                    => error = ""

C22_Witness ==
  /\ phase = "playing"
  /\ calledSuit = "hearts"
  /\ buried = <<14, 22>>
  /\ includes(hands[picker], 13)
  /\ Cardinality({c \in handOf(picker) : suitOf(c) = "hearts" /\ ~isTrump(c)}) = 1

(* the cards a seat has played in this hand *)
playedBy(playerId) ==
  LET plays == Flatten([i \in 1 .. Len(tricks) |-> tricks[i].cards]) \o currentTrick
  IN  {plays[i].card : i \in {j \in 1 .. Len(plays) : plays[j].playerId = playerId}}

(***************************************************************************)
(* C23: whenever underCardId is set it names a card that is in the         *)
(* picker's hand or that the picker has played; bury rejects every pair    *)
(* containing it, so it is never in the buried pile nor in another seat's  *)
(* hand.                                                                   *)
(***************************************************************************)
C23_UnderCardStaysWithPicker ==
  underCardId # null =>
    /\ picker # null
    /\ includes(hands[picker], underCardId) \/ underCardId \in playedBy(picker)
    /\ ~includes(buried, underCardId)
    /\ \A p \in Seats \ {picker} : ~includes(hands[p], underCardId)
    /\ phase = "burying" =>
         \A cardIds \in heldPairs :
           includes(cardIds, underCardId) => buryError(picker, cardIds) # ""

C23_Witness ==
  /\ phase = "playing"
  /\ underCardId # null
  /\ underCardId \in playedBy(picker)
  /\ ~includes(hands[picker], underCardId)
  /\ Len(buried) = BLIND_SIZE

(***************************************************************************)
(* C24: after every successful bury the picker holds exactly 6 cards,      *)
(* buried holds exactly the 2 named cards, phase = playing and the seat    *)
(* to act is the seat left of the dealer; so each of the five seats holds  *)
(* exactly 6 cards when play starts.                                       *)
(***************************************************************************)
C24_BuryStartsPlay ==
  [][(phase = "burying" /\ phase' = "playing") =>
       /\ Len(hands'[picker]) = CARDS_PER_PLAYER
       /\ Len(buried') = BLIND_SIZE
       /\ {buried'[i] : i \in 1 .. Len(buried')}
            = handOf(picker) \ {hands'[picker][i] : i \in 1 .. Len(hands'[picker])}
       /\ Cardinality({buried'[i] : i \in 1 .. Len(buried')}) = BLIND_SIZE
       /\ currentPlayerIndex' = (dealerIndex + 1) % NUM_PLAYERS
       /\ \A p \in Seats : Len(hands'[p]) = CARDS_PER_PLAYER]_vars

(***************************************************************************)
(* Playing a hand after an under call.  UnderInit is a game as bury leaves *)
(* it: the picker, seat 0, held the three fail aces and no fail 10, called *)
(* the 10 of a fail suit with one of their cards as the under card and     *)
(* buried the 7 and 8 of diamonds (the tests of "Under Card Must Be Played *)
(* When Called Suit Led" in tests/schwanzer.test.js set such a game up by  *)
(* hand).  UnderPlay is a playCard call: every call that is rejected,      *)
(* every accepted play of the picker, and for the other seats the first    *)
(* card of the hand that is accepted.                                      *)
(***************************************************************************)
UnderDeal ==
  << <<15, 23, 31, 29, 21, 2>>,
     <<11, 14, 19, 22, 18, 17>>,
     <<10, 9, 16, 13, 28, 3>>,
     <<8, 5, 20, 12, 7, 6>>,
     <<4, 27, 30, 26, 25, 24>> >>

UnderBuried == <<0, 1>>

UnderInit ==
  \E dealer \in Seats, suit \in {FAIL_SUITS[i] : i \in 1 .. Len(FAIL_SUITS)},
     underCard \in {UnderDeal[1][i] : i \in 1 .. CARDS_PER_PLAYER} :
    /\ hands = [p \in Seats |-> sortHand(UnderDeal[p + 1])]
    /\ blind = <<>>
    /\ buried = UnderBuried
    /\ phase = "playing"
    /\ dealerIndex = dealer
    /\ currentPlayerIndex = (dealer + 1) % NUM_PLAYERS
    /\ pickingIndex = 0
    /\ passedPlayers = [i \in 1 .. (NUM_PLAYERS - 1 - dealer) |-> dealer + i]
    /\ picker = 0
    /\ partner = null
    /\ calledSuit = suit
    /\ calledRank = "10"
    /\ isUnderCall = TRUE
    /\ underCardId = underCard
    /\ underCardPlayed = FALSE
    /\ calledSuitFirstTrick = TRUE
    /\ currentTrick = <<>>
    /\ tricks = <<>>
    /\ tricksWon = [p \in Seats |-> <<>>]
    /\ lastTrick = <<>>
    /\ isSchwanzer = FALSE
    /\ handResults = noResults
    /\ ret = [success |-> TRUE]

UnderPlayInput(playerId, card) ==
  \/ playCardError(playerId, card) # ""
  \/ playerId = picker
  \/ \A i \in 1 .. (position(hands[playerId], card) - 1) :
       playCardError(playerId, hands[playerId][i]) # ""

UnderPlay ==
  \E playerId \in Seats : \E card \in PlayArgs(playerId) :
    /\ UnderPlayInput(playerId, card)
    /\ playCard(playerId, card)

UnderNext == UnderPlay

UnderSpec == UnderInit /\ [][UnderNext]_vars

(***************************************************************************)
(* C25: while the picker holds an unplayed under card and another seat has *)
(* led the called suit in the current trick, playCard from the picker is   *)
(* accepted for the under card and rejected for every other card; when a   *)
(* different suit was led, or the under card has been played, the picker's *)
(* play is accepted exactly for the cards the legal-move rules allow.      *)
(***************************************************************************)
C25_UnderCardForced ==
  (phase = "playing" /\ picker # null /\ currentPlayerIndex = picker) =>
    LET holdsUnderCard == /\ isUnderCall
                          /\ underCardId # null
                          /\ includes(hands[picker], underCardId)
                          /\ underCardId \notin playedBy(picker)
        calledSuitLed == /\ Len(currentTrick) > 0
                         /\ currentTrick[1].playerId # picker
                         /\ getEffectiveSuit(currentTrick[1].card) = calledSuit
    IN  \A card \in handOf(picker) :
          IF holdsUnderCard /\ calledSuitLed
            THEN playCardError(picker, card) = "" <=> card = underCardId
          ELSE playCardError(picker, card) = ""
                 <=> includes(playableCards(picker), card)

DealQueens == <<29, 21, 13, 5>>
DealJacks == <<28, 20, 12, 4>>
DealDiamonds == <<7, 3, 6, 2, 1, 0>>
DealFail == <<15, 11, 14, 10, 9, 8, 23, 19, 22, 18, 17, 16, 31, 27, 30, 26, 25, 24>>

(* the cards dealt before seat p of a kind dealt count[q] to seat q *)
dealtBefore(count, p) == SumSeq([i \in 1 .. p |-> count[i - 1]])

dealtTo(cards, count, p) ==
  SubSeq(cards, dealtBefore(count, p) + 1, dealtBefore(count, p) + count[p])

SchwanzerInit ==
  \E queens \in [Seats -> 0 .. 1], jacks \in [Seats -> 0 .. 2],
     diamonds \in [Seats -> 0 .. 2] :
    LET fail == [p \in Seats |-> CARDS_PER_PLAYER - queens[p] - jacks[p] - diamonds[p]]
    IN  /\ dealtBefore(queens, NUM_PLAYERS) = Len(DealQueens)
        /\ dealtBefore(jacks, NUM_PLAYERS) = Len(DealJacks)
        /\ dealtBefore(diamonds, NUM_PLAYERS) = Len(DealDiamonds) - 1
        /\ hands = [p \in Seats |->
                      sortHand(dealtTo(DealQueens, queens, p) \o dealtTo(DealJacks, jacks, p)
                                 \o dealtTo(DealDiamonds, diamonds, p)
                                 \o dealtTo(DealFail, fail, p))]
        /\ blind = SubSeq(DealDiamonds, dealtBefore(diamonds, NUM_PLAYERS) + 1,
                          Len(DealDiamonds))
                     \o SubSeq(DealFail, dealtBefore(fail, NUM_PLAYERS) + 1, Len(DealFail))
        /\ buried = <<>>
        /\ phase = "picking"
        /\ dealerIndex = 0
        /\ currentPlayerIndex = 0
        /\ pickingIndex = 0
        /\ passedPlayers = <<1, 2, 3, 4>>
        /\ picker = null
        /\ partner = null
        /\ calledSuit = nullSuit
        /\ calledRank = "A"
        /\ isUnderCall = FALSE
        /\ underCardId = null
        /\ underCardPlayed = FALSE
        /\ calledSuitFirstTrick = TRUE
        /\ currentTrick = <<>>
        /\ tricks = <<>>
        /\ tricksWon = [p \in Seats |-> <<>>]
        /\ lastTrick = <<>>
        /\ isSchwanzer = FALSE
        /\ handResults = noResults
        /\ ret = [success |-> TRUE, passed |-> TRUE]

SchwanzerPick == Pick

SchwanzerNext == SchwanzerPick

SchwanzerSpec == SchwanzerInit /\ [][SchwanzerNext]_vars

getStateForPlayer(playerId) ==
  LET isMyTurn == currentPlayerIndex = playerId
      playing == phase = "playing" \/ phase = "schwanzer"
  IN  [phase |-> phase,
       players |-> [p \in Seats |->
                      [id |-> p,
                       seatIndex |-> p,
                       cardCount |-> Len(hands[p]),
                       isDealer |-> p = dealerIndex,
                       isPicker |-> p = picker,
                       isPartner |-> p = partner,
                       tricksWon |-> Len(tricksWon[p])]],
       hand |-> hands[playerId],
       currentTrick |-> currentTrick,
       lastTrick |-> lastTrick,
       tricks |-> tricks,
       currentPlayerIndex |-> currentPlayerIndex,
       dealerIndex |-> dealerIndex,
       picker |-> picker,
       partner |-> partner,
       calledSuit |-> calledSuit,
       calledRank |-> calledRank,
       isUnderCall |-> isUnderCall,
       underCardPlayed |-> underCardPlayed,
       isSchwanzer |-> isSchwanzer,
       myIndex |-> playerId,
       underCardId |-> IF playerId = picker /\ underCardId # null /\ ~underCardPlayed
                         THEN underCardId ELSE null,
       mustPlayUnderCard |-> playing /\ isMyTurn /\ mustPlayUnderCard(playerId),
       playableCards |-> IF playing /\ isMyTurn
                           THEN IF mustPlayUnderCard(playerId) THEN <<underCardId>>
                                ELSE playableCards(playerId)
                         ELSE <<>>,
       results |-> IF phase = "scoring" THEN handResults ELSE noResults]

(***************************************************************************)
(* C28: the view returned to a seat other than the picker never identifies *)
(* the under card: it carries no underCardId while the card is in the      *)
(* picker's hand, and when the under card is played no play of the trick   *)
(* data in the view is marked as the under card.                           *)
(***************************************************************************)
C28_UnderCardHidden ==
  \A playerId \in Seats \ {picker} :
    LET view == getStateForPlayer(playerId)
        shown == view.currentTrick \o view.lastTrick
                   \o Flatten([i \in 1 .. Len(view.tricks) |-> view.tricks[i].cards])
    IN  /\ view.underCardId = null
        /\ \A i \in 1 .. Len(shown) : ~shown[i].isUnderCard

(***************************************************************************)
(* C29: once phase = scoring with a stored result, every pick, callAce,    *)
(* bury and playCard call is rejected, and none of them changes the        *)
(* result (with its scores), the hands, the tricks, the picker or the      *)
(* partner of that hand.                                                   *)
(***************************************************************************)
C29_ScoringIsFinal ==
  /\ [](phase = "scoring" =>
          /\ handResults # noResults
          /\ \A playerId \in Seats :
               /\ pickError(playerId) # ""
               /\ \A suit \in {SUITS[i] : i \in 1 .. Len(SUITS)}, goAlone \in BOOLEAN :
                    \A underCard \in underCardArgs(playerId) :
                      callAceError(playerId, suit, goAlone, underCard) # ""
               /\ \A c \in Cards :
                    /\ playCardError(playerId, c) # ""
                    /\ \A d \in handOf(playerId) \cup {c} :
                         buryError(playerId, <<c, d>>) # "")
  /\ [][(phase = "scoring" /\ phase' # "picking") =>
          UNCHANGED <<phase, handResults, hands, tricks, tricksWon, picker, partner,
                      buried, dealerIndex>>
    ]_vars

C29_Witness ==
  /\ phase = "scoring"
  /\ ret.success = FALSE
  /\ handResults.type = "normal"
  /\ handResults.picker = picker
  /\ Len(tricks) = CARDS_PER_PLAYER

(***************************************************************************)
(* C30: once callAce has succeeded, calledSuit keeps its value for the     *)
(* rest of the hand, and with it calledRank, isUnderCall, underCardId and  *)
(* picker: no call made while burying or playing, accepted or rejected,    *)
(* changes any of them.                                                    *)
(***************************************************************************)
C30_CallIsKept ==
  [][(phase = "burying" \/ phase = "playing") =>
       UNCHANGED <<calledSuit, calledRank, isUnderCall, underCardId, picker>>
    ]_vars

C30_Witness ==
  /\ phase = "scoring"
  /\ ~isSchwanzer
  /\ calledSuit = "hearts"
  /\ handResults.calledSuit = "hearts"
  /\ partner \notin {null, picker}
  /\ Len(tricks) = CARDS_PER_PLAYER

(***************************************************************************)
(* Playing rules around the called suit                                    *)
(***************************************************************************)
(* the called card: the card of the called suit and the called rank *)
calledCard == cardId(calledSuit, calledRank)

(* the tricks whose lead card is of the called suit, the current one last *)
leadsOfCalledSuit ==
  Cardinality({i \in 1 .. Len(tricks) :
                 getEffectiveSuit(tricks[i].cards[1].card) = calledSuit})
    + (IF ~isLeading /\ getEffectiveSuit(currentTrick[1].card) = calledSuit THEN 1 ELSE 0)

(* the called suit is the lead of the current trick, for the first time *)
calledSuitLedNow ==
  /\ phase = "playing"
  /\ calledSuit # nullSuit
  /\ ~isLeading
  /\ getEffectiveSuit(currentTrick[1].card) = calledSuit
  /\ leadsOfCalledSuit = 1

(* C31: when the called suit is led for the first time and the seat to     *)
(* play is not the picker and holds the called card (the ace of the called *)
(* suit, the 10 in the call-10 variant), playCard accepts the called card  *)
(* from that seat and no other card of its hand.                           *)
C31_CalledCardForced ==
  \A seat \in Seats :
    ( /\ calledSuitLedNow
      /\ currentPlayerIndex = seat
      /\ seat # picker
      /\ includes(hands[seat], calledCard) )
    => \A i \in 1 .. Len(hands[seat]) :
         (playCardError(seat, hands[seat][i]) = "") <=> (hands[seat][i] = calledCard)

(* the same statement for a call of an ace only *)
C31_CalledAceForced ==
  calledRank = "A" => C31_CalledCardForced

(* the picker's cards of the called suit (Queens and Jacks are trump) *)
pickerCalledSuitCards ==
  SelectSeq(hands[picker], LAMBDA c : getEffectiveSuit(c) = calledSuit)

(* a suit is called in which the picker held a hold card at the call: every *)
(* call but the under call of a suit the picker holds no card of            *)
holdCardCall ==
  /\ calledSuit # nullSuit
  /\ ~(isUnderCall /\ calledRank = "A")

(* the picker is to play, cannot follow the lead or leads, and the called  *)
(* suit has not been led in this hand                                      *)
pickerBeforeFirstLead ==
  /\ phase = "playing"
  /\ holdCardCall
  /\ leadsOfCalledSuit = 0
  /\ currentPlayerIndex = picker
  /\ (~isLeading =>
        \A i \in 1 .. Len(hands[picker]) :
          getEffectiveSuit(hands[picker][i]) # getEffectiveSuit(currentTrick[1].card))

(* C32: after a call of a suit in which the picker holds a hold card, the  *)
(* picker holds at least one non-trump card of the called suit in every    *)
(* state until the called suit has been led; before that first lead the    *)
(* picker's last card of the called suit is accepted neither as a lead nor *)
(* as a discard when the picker cannot follow suit.                        *)
C32_HoldCardKept ==
  /\ ( /\ (phase = "burying" \/ phase = "playing")
       /\ holdCardCall
       /\ leadsOfCalledSuit = 0 )
     => Len(pickerCalledSuitCards) >= 1
  /\ (pickerBeforeFirstLead /\ Len(pickerCalledSuitCards) = 1)
     => playCardError(picker, pickerCalledSuitCards[1]) # ""

(* the same statement without the lead of the last card in a call of a 10 *)
C32_HoldCardKeptButAceLead ==
  /\ ( /\ (phase = "burying" \/ phase = "playing")
       /\ holdCardCall
       /\ leadsOfCalledSuit = 0 )
     => Len(pickerCalledSuitCards) >= 1
  /\ ( /\ pickerBeforeFirstLead
       /\ Len(pickerCalledSuitCards) = 1
       /\ ~(isLeading /\ calledRank = "10") )
     => playCardError(picker, pickerCalledSuitCards[1]) # ""

(* the picker is to discard and holds one card of the called suit *)
C32_DiscardCase ==
  pickerBeforeFirstLead /\ ~isLeading /\ Len(pickerCalledSuitCards) = 1

(* the picker is to lead a trick after a call *)
pickerLeads ==
  /\ phase = "playing"
  /\ calledSuit # nullSuit
  /\ currentPlayerIndex = picker
  /\ isLeading

(* C33: the picker can always lead the called suit: when the picker leads  *)
(* a trick, playCard accepts every card of the called suit in the picker's *)
(* hand, also the picker's only card of that suit before the suit is led.  *)
C33_PickerLeadsCalledSuit ==
  pickerLeads =>
    \A i \in 1 .. Len(pickerCalledSuitCards) :
      playCardError(picker, pickerCalledSuitCards[i]) = ""

(* the same statement once the called suit has been led, or with two cards *)
(* of it in hand, for a call of an ace                                     *)
C33_PickerLeadsSecondCard ==
  ( /\ pickerLeads
    /\ calledRank = "A"
    /\ (leadsOfCalledSuit > 0 \/ Len(pickerCalledSuitCards) > 1) )
  => \A i \in 1 .. Len(pickerCalledSuitCards) :
       playCardError(picker, pickerCalledSuitCards[i]) = ""

(* the cards of the called suit a seat holds (Queens and Jacks are trump) *)
calledSuitCards(seat) ==
  SelectSeq(hands[seat], LAMBDA c : getEffectiveSuit(c) = calledSuit)

(* the seat is to lead a trick and holds the called card *)
calledCardHolderLeads(seat) ==
  /\ phase = "playing"
  /\ calledSuit # nullSuit
  /\ currentPlayerIndex = seat
  /\ isLeading
  /\ includes(hands[seat], calledCard)

(* C34: a leader who holds the called card (the ace of the called suit,    *)
(* the 10 in the call-10 variant) and fewer than 4 cards of the called     *)
(* suit may lead that suit only with the called card itself; with 4 or     *)
(* more cards of the suit every one of them is accepted as a lead.         *)
C34_PartnerLeadsCalledCard ==
  \A seat \in Seats :
    calledCardHolderLeads(seat) =>
      \A i \in 1 .. Len(calledSuitCards(seat)) :
        (playCardError(seat, calledSuitCards(seat)[i]) = "")
          <=> ( \/ calledSuitCards(seat)[i] = calledCard
                \/ Len(calledSuitCards(seat)) >= 4 )

(* the same statement for a call of an ace only *)
C34_PartnerLeadsCalledAce ==
  calledRank = "A" => C34_PartnerLeadsCalledCard

(* a holder of the called ace leads with two or three cards of the suit *)
C34_AceHolderLeads ==
  \E seat \in Seats :
    /\ calledCardHolderLeads(seat)
    /\ calledRank = "A"
    /\ Len(calledSuitCards(seat)) > 1

(***************************************************************************)
(* Following suit                                                          *)
(***************************************************************************)
(* the suit a card counts for: Queens, Jacks and diamonds are trump *)
countsAs(c) ==
  IF rankOf(c) = "Q" \/ rankOf(c) = "J" \/ suitOf(c) = "diamonds"
    THEN "trump" ELSE suitOf(c)

(* this step is an accepted play of the seat *)
playAccepted(seat) ==
  /\ (phase = "playing" \/ phase = "schwanzer")
  /\ currentPlayerIndex = seat
  /\ Len(hands'[seat]) = Len(hands[seat]) - 1

(* the card the seat plays in this step *)
cardPlayed(seat) ==
  CHOOSE c \in {hands[seat][i] : i \in 1 .. Len(hands[seat])} : ~includes(hands'[seat], c)

(* the seat holds a card that counts for the suit of the lead card *)
canFollow(seat) ==
  \E i \in 1 .. Len(hands[seat]) :
    countsAs(hands[seat][i]) = countsAs(currentTrick[1].card)

TrickFree == 3

(* 7 clubs, 7 hearts, 7 spades, 7 diamonds, 8 diamonds *)
TrickFill == <<24, 8, 16, 0, 1>>

(* the trick of the cards in free, completed from TrickFill, led by leader *)
trickOf(free, leader) ==
  LET fill == SelectSeq(TrickFill, LAMBDA c : ~includes(free, c))
      cards == free \o SubSeq(fill, 1, NUM_PLAYERS - Len(free))
  IN  [i \in 1 .. NUM_PLAYERS |->
         [playerId |-> (leader + i - 1) % NUM_PLAYERS, card |-> cards[i],
          isUnderCard |-> FALSE]]

TrickInit ==
  \E dealer \in 0 .. (MaxHands - 1) :
  \E free \in [1 .. TrickFree -> Cards] :
    /\ \A i \in 1 .. TrickFree : \A j \in 1 .. TrickFree : free[i] = free[j] => i = j
    /\ hands = [p \in Seats |-> <<>>]
    /\ blind = <<>>
    /\ buried = <<>>
    /\ phase = "playing"
    /\ dealerIndex = dealer
    /\ currentPlayerIndex = (dealer + 1) % NUM_PLAYERS
    /\ pickingIndex = 0
    /\ passedPlayers = <<>>
    /\ picker = null
    /\ partner = null
    /\ calledSuit = nullSuit
    /\ calledRank = "A"
    /\ isUnderCall = FALSE
    /\ underCardId = null
    /\ underCardPlayed = FALSE
    /\ calledSuitFirstTrick = TRUE
    /\ currentTrick = trickOf(free, (dealer + 1) % NUM_PLAYERS)
    /\ tricks = <<>>
    /\ tricksWon = [p \in Seats |-> <<>>]
    /\ lastTrick = <<>>
    /\ isSchwanzer = FALSE
    /\ handResults = noResults
    /\ ret = noResults

DetermineTrickWinner ==
  /\ ret' = [winner |-> determineTrickWinner(currentTrick)]
  /\ UNCHANGED handState

TrickNext == DetermineTrickWinner

TrickSpec == TrickInit /\ [][TrickNext]_vars

(* the trump cards from the highest down: the Queens and the Jacks by      *)
(* clubs, spades, hearts, diamonds, then A, 10, K, 9, 8, 7 of diamonds     *)
C36_Trumps == <<29, 21, 13, 5, 28, 20, 12, 4, 7, 3, 6, 2, 1, 0>>

(* the ranks of a fail suit from the highest down *)
C36_FailRanks == <<"A", "10", "K", "9", "8", "7">>

(* the plays of the trick with a trump card, and those of the lead's suit *)
C36_TrumpPlays == {i \in 1 .. Len(currentTrick) : includes(C36_Trumps, currentTrick[i].card)}

C36_LeadSuitPlays ==
  {i \in 1 .. Len(currentTrick) :
     /\ ~includes(C36_Trumps, currentTrick[i].card)
     /\ suitOf(currentTrick[i].card) = suitOf(currentTrick[1].card)}

(* the play that wins by the rule of the game *)
C36_Best ==
  IF C36_TrumpPlays # {}
    THEN CHOOSE i \in C36_TrumpPlays :
           \A j \in C36_TrumpPlays :
             indexOf(C36_Trumps, currentTrick[i].card) <= indexOf(C36_Trumps, currentTrick[j].card)
    ELSE CHOOSE i \in C36_LeadSuitPlays :
           \A j \in C36_LeadSuitPlays :
             indexOf(C36_FailRanks, rankOf(currentTrick[i].card))
               <= indexOf(C36_FailRanks, rankOf(currentTrick[j].card))

(* C36: the winner of a completed trick is the seat that played the        *)
(* highest trump card if any trump was played (Q clubs > Q spades >        *)
(* Q hearts > Q diamonds > J clubs > J spades > J hearts > J diamonds >    *)
(* A > 10 > K > 9 > 8 > 7 of diamonds), otherwise the seat that played the *)
(* highest card of the lead card's suit (A > 10 > K > 9 > 8 > 7); a card   *)
(* that is neither trump nor of the lead's suit never wins, and the leader *)
(* wins when nobody follows or trumps.                                     *)
C36_TrickWinner ==
  "winner" \in DOMAIN ret =>
    /\ ret.winner = currentTrick[C36_Best].playerId
    /\ \A i \in 1 .. Len(currentTrick) :
         ( /\ ~includes(C36_Trumps, currentTrick[i].card)
           /\ suitOf(currentTrick[i].card) # suitOf(currentTrick[1].card) )
         => ret.winner # currentTrick[i].playerId
    /\ (C36_TrumpPlays = {} /\ C36_LeadSuitPlays = {1})
         => ret.winner = currentTrick[1].playerId

(* a trick without trump in which the 10 of the lead's suit beats the King *)
(* and an ace of another suit takes nothing                                *)
C36_Witness ==
  /\ "winner" \in DOMAIN ret
  /\ C36_TrumpPlays = {}
  /\ \E i \in C36_LeadSuitPlays : \E j \in C36_LeadSuitPlays :
       /\ rankOf(currentTrick[i].card) = "10"
       /\ rankOf(currentTrick[j].card) = "K"
       /\ ret.winner = currentTrick[i].playerId
  /\ \E i \in 1 .. Len(currentTrick) :
       /\ rankOf(currentTrick[i].card) = "A"
       /\ i \notin C36_LeadSuitPlays

(***************************************************************************)
(* Order of play                                                           *)
(***************************************************************************)
(* the dealer of the hand the tricks belong to: _completeHand has moved    *)
(* dealerIndex on when the hand is scored                                  *)
dealerOfHand ==
  IF phase = "scoring" THEN (dealerIndex + NUM_PLAYERS - 1) % NUM_PLAYERS ELSE dealerIndex

(* the seat that leads trick t of the hand by the rule of the game *)
C37_Leader(t) ==
  IF t = 1 THEN (dealerOfHand + 1) % NUM_PLAYERS ELSE tricks[t - 1].winner

(* the plays are made by consecutive seats from the given leader on *)
C37_InSeatOrder(plays, leader) ==
  \A j \in 1 .. Len(plays) : plays[j].playerId = (leader + j - 1) % NUM_PLAYERS

(* C37: within a trick the five seats play exactly once each, in seat      *)
(* order from the leader; the first trick of a hand is led by the seat     *)
(* left of the dealer and every later trick by the recorded winner of the  *)
(* trick before it.                                                        *)
C37_OrderOfPlay ==
  (phase = "playing" \/ phase = "schwanzer" \/ phase = "scoring") =>
    /\ \A t \in 1 .. Len(tricks) :
         /\ Len(tricks[t].cards) = NUM_PLAYERS
         /\ C37_InSeatOrder(tricks[t].cards, C37_Leader(t))
    /\ Len(currentTrick) < NUM_PLAYERS
    /\ C37_InSeatOrder(currentTrick, C37_Leader(Len(tricks) + 1))
    /\ currentPlayerIndex = (C37_Leader(Len(tricks) + 1) + Len(currentTrick)) % NUM_PLAYERS

(* a second trick under way, led by a seat that is not left of the dealer *)
C37_Witness ==
  /\ phase = "playing"
  /\ Len(tricks) >= 1
  /\ Len(currentTrick) >= 2
  /\ tricks[Len(tricks)].winner # (dealerOfHand + 1) % NUM_PLAYERS
  /\ currentTrick[1].playerId = tricks[Len(tricks)].winner

(***************************************************************************)
(* The under card and the partner                                          *)
(***************************************************************************)
(* this step is an accepted play of the under card by the picker *)
underCardPlay ==
  /\ phase = "playing"
  /\ isUnderCall
  /\ underCardId # null
  /\ picker # null
  /\ playAccepted(picker)
  /\ cardPlayed(picker) = underCardId

(* the scores of a hand the picker played alone: the picker four times the *)
(* multiplier, every other seat once, with opposite signs                  *)
scoredAlone ==
  /\ handResults.type = "normal"
  /\ handResults.pickingTeam = <<picker>>
  /\ \A p \in Seats :
       handResults.scores[p] =
         IF handResults.pickersWin
           THEN (IF p = picker THEN 4 * handResults.multiplier ELSE -handResults.multiplier)
           ELSE (IF p = picker THEN -4 * handResults.multiplier ELSE handResults.multiplier)

(* C38: when the picker plays the under card while partner is still unset, *)
(* partner becomes the picker and underCardPlayed becomes true; the hand   *)
(* is then scored with the picker alone: the picker gets +4 or -4 times    *)
(* the multiplier and each of the other four seats, also the holder of the *)
(* called card, -1 or +1 times the multiplier.                             *)
C38_UnderCardMakesAlone ==
  [][ /\ (underCardPlay /\ partner = null)
         => (partner' = picker /\ underCardPlayed')
      /\ (phase' = "scoring" /\ partner' = picker /\ picker' # null)
         => scoredAlone'
  ]_vars

(* the second half alone: a hand that ends with the picker as partner is   *)
(* scored as a hand played alone                                           *)
C38_OwnPartnerScoredAlone ==
  (phase = "scoring" /\ picker # null /\ partner = picker) => scoredAlone

(* a hand is scored whose picker played the under card and is the partner *)
C38_ScoredCase ==
  phase = "scoring" /\ isUnderCall /\ partner = picker /\ underCardPlayed

(* C39: whenever a suit was called, partner is set by the time the hand is *)
(* scored: the called card is never in the picker's hand nor in the buried *)
(* pile, so a seat plays it or the picker plays the under card; a hand is  *)
(* scored as played alone only if the picker called no suit or became      *)
(* their own partner.                                                      *)
C39_PartnerKnownAtScoring ==
  /\ (phase = "scoring" /\ ~isSchwanzer /\ calledSuit # nullSuit) => partner # null
  /\ ((phase = "burying" \/ phase = "playing") /\ calledSuit # nullSuit)
       => (~includes(hands[picker], calledCard) /\ ~includes(buried, calledCard))
  /\ (phase = "scoring" /\ ~isSchwanzer /\ handResults.pickingTeam = <<picker>>)
       => (calledSuit = nullSuit \/ partner = picker)

(* a scored hand whose partner is the seat that played the called 10 *)
C39_Witness ==
  /\ phase = "scoring"
  /\ calledSuit # nullSuit
  /\ calledRank = "10"
  /\ partner # null
  /\ partner # picker
  /\ calledCard \in playedBy(partner)
  /\ handResults.pickingTeam = <<picker, partner>>

(***************************************************************************)
(* The winner playCard reports                                             *)
(***************************************************************************)
(* the last call was a playCard that completed a trick *)
trickReported ==
  /\ "trickComplete" \in DOMAIN ret
  /\ ret.trickComplete
  /\ Len(tricks) >= 1
  /\ tricks[Len(tricks)].cards = ret.trick

(* C40: the winner in the result of the playCard call that completes a     *)
(* trick is the seat recorded as winner of that trick in tricks and        *)
(* credited with it in tricksWon, for every trick, the last of the hand    *)
(* and a trick that contains the under card included.                      *)
C40_ReportedWinner ==
  trickReported =>
    /\ ret.winner = tricks[Len(tricks)].winner
    /\ includes(tricksWon[ret.winner], Len(tricks))

(* the same statement for the tricks that do not end the hand *)
C40_ReportedWinnerBeforeLast ==
  (trickReported /\ ~ret.handComplete) =>
    /\ ret.winner = tricks[Len(tricks)].winner
    /\ includes(tricksWon[ret.winner], Len(tricks))

(* a trick with the under card that does not end the hand is reported *)
C40_UnderCardTrick ==
  /\ trickReported
  /\ ~ret.handComplete
  /\ \E i \in 1 .. NUM_PLAYERS : ret.trick[i].isUnderCard
  /\ determineTrickWinner(ret.trick) # ret.winner

=============================================================================
